---- MODULE Spec2Model ----
(***************************************************************************)
(* Scoped overrides of fabric's process-wide state (fabric.state.env and   *)
(* fabric.state.output) by the context managers of                         *)
(* fabric/context_managers.py: _setenv, show, hide, settings, cd, prefix.  *)
(*                                                                         *)
(* env and output are Python dicts: functions whose DOMAIN is the set of   *)
(* keys present.  Strings that the code takes apart (paths) are sequences  *)
(* of one-character strings; other values are atoms.                       *)
(*                                                                         *)
(* `with` statements nest on one thread: stack holds the context managers  *)
(* that are entered and not yet exited, innermost last.  A failure raised  *)
(* in a block unwinds the stack one __exit__ at a time until some          *)
(* enclosing code catches it.                                              *)
(***************************************************************************)
EXTENDS Integers, Sequences, FiniteSets, TLC

VARIABLES
    env,      \* fabric.state.env: key -> value, for the keys present
    output,   \* fabric.state.output: group -> BOOLEAN
    stack,    \* entered context managers, innermost last
    status,   \* "run": normal execution; "unwind": a failure is propagating
    entry,    \* history: env and output as they were when stack[i] was entered
    last      \* history: the last with-statement step and the order of its parts

vars == <<env, output, stack, status, entry, last>>

-----------------------------------------------------------------------------
(* Bounds of the model *)

MaxDepth == 2      \* nesting depth of with statements
MaxArgs == 3       \* positional context managers given to one settings() call
MaxPathLen == 2    \* characters in a path given to cd()
MaxPrefixes == 3   \* nesting depth of prefix() scopes

-----------------------------------------------------------------------------
(* Python dict operations *)

EmptyDict == [k \in {} |-> k]

\* dict.update(other): other's entries win, the rest are kept
Update(d, other) ==
    [k \in (DOMAIN d) \cup (DOMAIN other) |->
        IF k \in DOMAIN other THEN other[k] ELSE d[k]]

\* d[key] = value
SetItem(d, key, value) ==
    [k \in (DOMAIN d) \cup {key} |-> IF k = key THEN value ELSE d[k]]

\* the entries of d whose key is in keys
Restrict(d, keys) == [k \in (DOMAIN d) \cap keys |-> d[k]]

Range(s) == {s[i] : i \in DOMAIN s}

-----------------------------------------------------------------------------
(* Context manager objects, before they are entered.  A generator-based     *)
(* manager runs none of its body until __enter__.                           *)

Mgr(kind, kwargs, groups, which, managers) ==
    [kind |-> kind, kwargs |-> kwargs, groups |-> groups, which |-> which,
     managers |-> managers]

\* _setenv(**kwargs)
SetenvMgr(kwargs) == Mgr("setenv", kwargs, <<>>, FALSE, <<>>)

\* the generator _set_output(groups, which), wrapped by contextmanager
OutputMgr(groups, which) == Mgr("output", EmptyDict, groups, which, <<>>)

show(groups) == OutputMgr(groups, TRUE)

hide(groups) == OutputMgr(groups, FALSE)

\* contextlib.nested(*managers)
NestedMgr(managers) == Mgr("nested", EmptyDict, <<>>, FALSE, managers)

\* a caller-supplied context manager whose __enter__ raises
RaisingMgr == Mgr("raising", EmptyDict, <<>>, FALSE, <<>>)

\* no manager: the placeholder of the history before any with statement
NoMgr == Mgr("none", EmptyDict, <<>>, FALSE, <<>>)

\* an entered manager: the locals its generator holds while suspended at
\* its yield (previous), and for nested() the entered managers (exits)
Frame(mgr, previous, exits) ==
    [mgr |-> mgr, previous |-> previous, exits |-> exits]

-----------------------------------------------------------------------------
(* fabric.state.output.expand_aliases: a known alias is replaced by its     *)
(* groups (one level), any other name is passed through, duplicates are     *)
(* removed and the order is kept.                                           *)

Aliases == [a \in {"output"} |-> <<"stdout", "stderr">>]

RECURSIVE Flatten(_)
Flatten(names) ==
    IF names = <<>> THEN <<>>
    ELSE (IF Head(names) \in DOMAIN Aliases
          THEN Aliases[Head(names)] ELSE <<Head(names)>>)
         \o Flatten(Tail(names))

RECURSIVE Dedup(_, _)
Dedup(names, seen) ==
    IF names = <<>> THEN <<>>
    ELSE IF Head(names) \in seen THEN Dedup(Tail(names), seen)
    ELSE <<Head(names)>> \o Dedup(Tail(names), seen \cup {Head(names)})

expand_aliases(names) == Dedup(Flatten(names), {})

-----------------------------------------------------------------------------
(* _set_output: the loop before the yield, and the statement after it       *)

\* Python's None
None == "None"

\* output[group]: the flag of the group, and no failure for a name that
\* output does not hold
OutputGetItem(out, group) == IF group \in DOMAIN out THEN out[group] ELSE None

SetOutputLoopSavesAfter(groups, which, out, previous) ==
    [ok |-> TRUE,
     output |-> [g \in DOMAIN out \cup Range(groups) |->
                    IF g \in Range(groups) THEN which ELSE out[g]],
     previous |-> [g \in Range(groups) |-> which]]

RECURSIVE SetOutputLoopStopsAtUnknown(_, _, _, _)
SetOutputLoopStopsAtUnknown(groups, which, out, previous) ==
    IF groups = <<>> THEN [ok |-> TRUE, output |-> out, previous |-> previous]
    ELSE IF Head(groups) \notin DOMAIN out
    THEN [ok |-> FALSE, output |-> out, previous |-> previous]
    ELSE SetOutputLoopStopsAtUnknown(Tail(groups), which,
                                     SetItem(out, Head(groups), which),
                                     SetItem(previous, Head(groups),
                                             out[Head(groups)]))

\* for group in ...: previous[group] = output[group]; output[group] = which
RECURSIVE SetOutputLoop(_, _, _, _)
SetOutputLoop(groups, which, out, previous) ==
    IF groups = <<>> THEN [ok |-> TRUE, output |-> out, previous |-> previous]
    ELSE SetOutputLoop(Tail(groups), which,
                       SetItem(out, Head(groups), which),
                       SetItem(previous, Head(groups),
                               OutputGetItem(out, Head(groups))))

SetOutputEnter(out, groups, which) ==
    SetOutputLoop(expand_aliases(groups), which, out, EmptyDict)

\* The yield is not inside a try: a failure thrown into the generator at the
\* yield leaves it there, and output.update(previous) runs only when the
\* block ended normally.
SetOutputExit(out, previous, raised) ==
    IF raised THEN out ELSE Update(out, previous)

-----------------------------------------------------------------------------
(* _setenv: the loop before the yield, and the finally clause               *)

\* for key, value in kwargs.iteritems():
\*     if key in env: previous[key] = env[key]
\*     env[key] = value
\* (mutation: previous is read after env[key] = value)
SetenvEnterSavesNew(e, kwargs) ==
    [env |-> Update(e, kwargs),
     previous |-> Restrict(Update(e, kwargs), DOMAIN kwargs)]

\* (mutation: previous holds every key of env, not only the overridden ones)
SetenvEnterSavesAll(e, kwargs) ==
    [env |-> Update(e, kwargs), previous |-> e]

SetenvEnter(e, kwargs) ==
    [env |-> Update(e, kwargs), previous |-> Restrict(e, DOMAIN kwargs)]

\* (mutation: no try/finally around the yield)
SetenvExitNoFinally(e, previous, raised) ==
    IF raised THEN e ELSE Update(e, previous)

\* try: yield / finally: env.update(previous)
\* runs when the block ended normally and when it raised
SetenvExit(e, previous, raised) == Update(e, previous)

-----------------------------------------------------------------------------
(* __enter__ and __exit__ of one generator-based manager                    *)

\* __enter__: run the generator to its yield
SimpleEnter(e, o, m) ==
    IF m.kind = "setenv"
    THEN LET r == SetenvEnter(e, m.kwargs)
         IN  [ok |-> TRUE, env |-> r.env, output |-> o,
              frame |-> Frame(m, r.previous, <<>>)]
    ELSE IF m.kind = "output"
    THEN LET r == SetOutputEnter(o, m.groups, m.which)
         IN  [ok |-> r.ok, env |-> e, output |-> r.output,
              frame |-> Frame(m, r.previous, <<>>)]
    ELSE [ok |-> FALSE, env |-> e, output |-> o,
          frame |-> Frame(m, EmptyDict, <<>>)]

\* __exit__: resume the generator after its yield (raised = FALSE) or throw
\* the block's failure into it at the yield (raised = TRUE).  Neither
\* generator catches the failure, so __exit__ never suppresses it.
SimpleExit(e, o, f, raised) ==
    IF f.mgr.kind = "setenv"
    THEN [env |-> SetenvExit(e, f.previous, raised), output |-> o, raised |-> raised]
    ELSE [env |-> e, output |-> SetOutputExit(o, f.previous, raised),
          raised |-> raised]

-----------------------------------------------------------------------------
(* contextlib.nested, which settings() returns                              *)

Ev(ev, idx) == [ev |-> ev, idx |-> idx]

\* finally: while exits: exit = exits.pop(); exit(*exc)
\* exits are popped from the end; every entry of trace names the position of
\* its manager in the managers given to nested().
RECURSIVE NestedExit(_, _, _, _, _)
NestedExit(e, o, exits, raised, trace) ==
    IF exits = <<>>
    THEN [env |-> e, output |-> o, raised |-> raised, trace |-> trace]
    ELSE LET n == Len(exits)
             r == SimpleExit(e, o, exits[n], raised)
         IN  NestedExit(r.env, r.output, SubSeq(exits, 1, n - 1), r.raised,
                        Append(trace, Ev("exit", n)))

\* for mgr in managers: vars.append(mgr.__enter__()); exits.append(mgr.__exit__)
\* A failing __enter__ is caught, the managers entered so far are exited
\* with the failure, and then it is raised again.
RECURSIVE NestedEnter(_, _, _, _, _, _)
NestedEnter(e, o, managers, i, exits, trace) ==
    IF i > Len(managers)
    THEN [ok |-> TRUE, env |-> e, output |-> o, exits |-> exits,
          trace |-> trace]
    ELSE LET r == SimpleEnter(e, o, managers[i])
         IN  IF r.ok
             THEN NestedEnter(r.env, r.output, managers, i + 1,
                              Append(exits, r.frame),
                              Append(trace, Ev("enter", i)))
             ELSE LET u == NestedExit(r.env, r.output, exits, TRUE,
                                      Append(trace, Ev("fail", i)))
                  IN  [ok |-> FALSE, env |-> u.env, output |-> u.output,
                       exits |-> <<>>, trace |-> u.trace]

\* (mutation: the keyword overrides are entered first)
settingsKwargsFirst(args, kwargs) ==
    NestedMgr(IF DOMAIN kwargs # {}
              THEN <<SetenvMgr(kwargs)>> \o args ELSE args)

\* settings(*args, **kwargs)
settings(args, kwargs) ==
    NestedMgr(IF DOMAIN kwargs # {}
              THEN Append(args, SetenvMgr(kwargs)) ELSE args)

-----------------------------------------------------------------------------
(* cd and prefix: a _setenv manager whose value is computed from env when   *)
(* the manager is created                                                   *)

\* path.replace(' ', '\ '): every space becomes a backslash and a space
RECURSIVE EscapeSpaces(_)
EscapeSpaces(path) ==
    IF path = <<>> THEN <<>>
    ELSE (IF Head(path) = " " THEN <<"\\", " ">> ELSE <<Head(path)>>)
         \o EscapeSpaces(Tail(path))

\* env.get('cwd') is true: the key is present and its string is not empty
HasCwd(e) == "cwd" \in DOMAIN e /\ e["cwd"] # <<>>

StartsWithSlash(path) == path # <<>> /\ Head(path) = "/"

\* (mutation: the path is stored as given)
NewCwdUnescaped(e, path) ==
    IF HasCwd(e) /\ ~StartsWithSlash(path)
    THEN e["cwd"] \o <<"/">> \o path
    ELSE path

NewCwd(e, path) ==
    LET escaped == EscapeSpaces(path)
    IN  IF HasCwd(e) /\ ~StartsWithSlash(escaped)
        THEN e["cwd"] \o <<"/">> \o escaped
        ELSE escaped

cd(e, path) == SetenvMgr([k \in {"cwd"} |-> NewCwd(e, path)])

\* (mutation: the command is put in front of the list)
NewPrefixesInFront(e, command) == <<command>> \o e["command_prefixes"]

NewPrefixes(e, command) == e["command_prefixes"] \o <<command>>

prefix(e, command) ==
    SetenvMgr([k \in {"command_prefixes"} |-> NewPrefixes(e, command)])

-----------------------------------------------------------------------------
(* The with statement                                                       *)

MgrEnter(e, o, m) ==
    IF m.kind = "nested"
    THEN LET r == NestedEnter(e, o, m.managers, 1, <<>>, <<>>)
         IN  [ok |-> r.ok, env |-> r.env, output |-> r.output,
              frame |-> Frame(m, EmptyDict, r.exits), trace |-> r.trace]
    ELSE LET r == SimpleEnter(e, o, m)
         IN  [ok |-> r.ok, env |-> r.env, output |-> r.output,
              frame |-> r.frame, trace |-> <<>>]

MgrExit(e, o, f, raised) ==
    IF f.mgr.kind = "nested"
    THEN NestedExit(e, o, f.exits, raised, <<>>)
    ELSE LET r == SimpleExit(e, o, f, raised)
         IN  [env |-> r.env, output |-> r.output, raised |-> r.raised,
              trace |-> <<>>]

\* the expression of a with statement, as written in the fabfile
Call(fn, args, kwargs) == [fn |-> fn, args |-> args, kwargs |-> kwargs]

NoCall == Call("none", <<>>, EmptyDict)

\* history of one entry: the call, and env and output just before __enter__
Snap(call, e, o) == [call |-> call, env |-> e, output |-> o]

\* history of one with-statement step: what was done (op) to which manager,
\* the history of its entry, whether a failure propagates after the step,
\* and the order in which nested() entered and exited its managers
Step(op, mgr, snap, raised, trace) ==
    [op |-> op, mgr |-> mgr, snap |-> snap, raised |-> raised,
     trace |-> trace]

\* with m: ... is reached.  m.__enter__() runs; if it raises, the block is
\* skipped, m.__exit__ is not called and the failure propagates.
With(m, call) ==
    /\ status = "run"
    /\ LET r == MgrEnter(env, output, m)
           s == Snap(call, env, output)
       IN  /\ env' = r.env
           /\ output' = r.output
           /\ last' = Step("enter", m, s, ~r.ok, r.trace)
           /\ IF r.ok
              THEN /\ stack' = Append(stack, r.frame)
                   /\ entry' = Append(entry, s)
                   /\ status' = "run"
              ELSE /\ status' = "unwind"
                   /\ UNCHANGED <<stack, entry>>

\* the innermost block ends normally: __exit__(None, None, None)
ExitBlock ==
    /\ status = "run"
    /\ stack # <<>>
    /\ LET n == Len(stack)
           r == MgrExit(env, output, stack[n], FALSE)
       IN  /\ env' = r.env
           /\ output' = r.output
           /\ stack' = SubSeq(stack, 1, n - 1)
           /\ entry' = SubSeq(entry, 1, n - 1)
           /\ last' = Step("exit", stack[n].mgr, entry[n], r.raised, r.trace)
           /\ UNCHANGED status

\* the innermost block raises (any exception, or SystemExit from abort)
Raise ==
    /\ status = "run"
    /\ stack # <<>>
    /\ status' = "unwind"
    /\ UNCHANGED <<env, output, stack, entry, last>>

\* the failure leaves the innermost with statement: __exit__(*exc_info)
Unwind ==
    /\ status = "unwind"
    /\ stack # <<>>
    /\ LET n == Len(stack)
           r == MgrExit(env, output, stack[n], TRUE)
       IN  /\ env' = r.env
           /\ output' = r.output
           /\ stack' = SubSeq(stack, 1, n - 1)
           /\ entry' = SubSeq(entry, 1, n - 1)
           /\ status' = IF r.raised THEN "unwind" ELSE "run"
           /\ last' = Step("unwind", stack[n].mgr, entry[n], r.raised,
                           r.trace)

\* the code around the with statement catches the failure (try/except)
Catch ==
    /\ status = "unwind"
    /\ status' = "run"
    /\ UNCHANGED <<env, output, stack, entry, last>>

-----------------------------------------------------------------------------
(* The with statements of a fabfile                                         *)

WithSettings(args, kwargs) ==
    With(settings(args, kwargs), Call("settings", args, kwargs))

WithShow(groups) == With(show(groups), Call("show", groups, EmptyDict))

WithHide(groups) == With(hide(groups), Call("hide", groups, EmptyDict))

WithCd(path) == With(cd(env, path), Call("cd", <<path>>, EmptyDict))

\* env.command_prefixes of a missing key raises AttributeError before any
\* manager exists
WithPrefix(command) ==
    IF "command_prefixes" \in DOMAIN env
    THEN With(prefix(env, command), Call("prefix", <<command>>, EmptyDict))
    ELSE /\ status = "run"
         /\ status' = "unwind"
         /\ UNCHANGED <<env, output, stack, entry, last>>

-----------------------------------------------------------------------------
(* Inputs *)

SeqsUpTo(S, n) == UNION {[1..k -> S] : k \in 0..n}

Dict1(key, value) == [k \in {key} |-> value]

Groups == {"stdout", "stderr"}

\* the keyword overrides given to settings()
KwargsSet == {Dict1("user", v) : v \in {"v1", "v2"}}

\* the positional context managers given to settings()
ArgMgrs ==
    {SetenvMgr(Dict1("user", "v1")), hide(<<"stdout">>), show(<<"output">>),
     RaisingMgr}

\* the group names given to show() and hide()
GroupLists == {<<"stdout">>, <<"output">>}

InitHistory ==
    /\ stack = <<>>
    /\ status = "run"
    /\ entry = <<>>
    /\ last = Step("init", NoMgr, Snap(NoCall, env, output), FALSE, <<>>)

AllOutput == [g \in Groups |-> TRUE]

\* fabric.state sets cwd to the empty string and command_prefixes to the
\* empty list; user stands for any other key, present or not
Defaults == SetItem(Dict1("cwd", <<>>), "command_prefixes", <<>>)

Init ==
    /\ env \in {Defaults, SetItem(Defaults, "user", "v0")}
    /\ output = AllOutput
    /\ InitHistory

\* A run of the model follows one outermost with statement: a new with
\* statement is reached inside an open block, or as the first of the run.
CanEnter(depth) ==
    /\ Len(stack) < depth
    /\ (stack # <<>> \/ last.op = "init")

\* nested with statements, each with one scope
Next ==
    \/ /\ CanEnter(MaxDepth)
       /\ \E kwargs \in KwargsSet : WithSettings(<<>>, kwargs)
    \/ /\ CanEnter(MaxDepth)
       /\ \E groups \in GroupLists : WithShow(groups)
    \/ /\ CanEnter(MaxDepth)
       /\ \E groups \in GroupLists : WithHide(groups)
    \/ /\ CanEnter(MaxDepth)
       /\ WithCd(<<"a">>)
    \/ /\ CanEnter(MaxDepth)
       /\ WithPrefix("x")
    \/ ExitBlock
    \/ Raise
    \/ Unwind
    \/ Catch

Spec == Init /\ [][Next]_vars

\* one with statement whose settings() composes several scopes
NextCompose ==
    \/ /\ CanEnter(1)
       /\ \E args \in SeqsUpTo(ArgMgrs, MaxArgs),
             kwargs \in KwargsSet \cup {EmptyDict} :
              WithSettings(args, kwargs)
    \/ ExitBlock
    \/ Raise
    \/ Unwind
    \/ Catch

SpecCompose == Init /\ [][NextCompose]_vars

-----------------------------------------------------------------------------
(* Nested cd scopes *)

CdPaths == {<<"a">>, <<"b">>, <<"/", "a">>}

InitCd ==
    /\ env \in {Defaults, Dict1("command_prefixes", <<>>),
                SetItem(Defaults, "cwd", <<"c">>)}
    /\ output = AllOutput
    /\ InitHistory

NextCd ==
    \/ /\ CanEnter(MaxDepth)
       /\ \E path \in CdPaths : WithCd(path)
    \/ ExitBlock
    \/ Raise
    \/ Unwind
    \/ Catch

SpecCd == InitCd /\ [][NextCd]_vars

-----------------------------------------------------------------------------
(* One cd scope, for every current directory and every path *)

Chars == {"/", " ", "a"}

Strings == SeqsUpTo(Chars, MaxPathLen)

InitCdPath ==
    /\ env \in {Dict1("command_prefixes", <<>>)}
              \cup {SetItem(Defaults, "cwd", c) : c \in Strings}
    /\ output = AllOutput
    /\ InitHistory

NextCdPath ==
    \/ /\ CanEnter(1)
       /\ \E path \in Strings : WithCd(path)
    \/ ExitBlock
    \/ Raise
    \/ Unwind
    \/ Catch

SpecCdPath == InitCdPath /\ [][NextCdPath]_vars

-----------------------------------------------------------------------------
(* Nested prefix scopes *)

Commands == {"x", "y", "z"}

InitPrefix ==
    /\ env \in {Dict1("cwd", <<>>)}
              \cup {SetItem(Defaults, "command_prefixes", l) :
                       l \in {<<>>, <<"w">>}}
    /\ output = AllOutput
    /\ InitHistory

NextPrefix ==
    \/ /\ CanEnter(MaxPrefixes)
       /\ \E command \in Commands : WithPrefix(command)
    \/ ExitBlock
    \/ Raise
    \/ Unwind
    \/ Catch

SpecPrefix == InitPrefix /\ [][NextPrefix]_vars

-----------------------------------------------------------------------------
(* Properties.  They read the history: last is the most recent with-       *)
(* statement step, last.snap the state just before its manager was entered. *)

\* the env keys that the _setenv managers of m override
OverrideKeys(m) ==
    IF m.kind = "nested"
    THEN UNION {DOMAIN m.managers[i].kwargs : i \in DOMAIN m.managers}
    ELSE DOMAIN m.kwargs

\* m is one _setenv scope: from cd or prefix, or settings(**kwargs)
IsEnvScope(m) ==
    \/ m.kind = "setenv"
    \/ /\ m.kind = "nested"
       /\ Len(m.managers) = 1
       /\ m.managers[1].kind = "setenv"

\* the scope of the last step has been left
Left == last.op \in {"exit", "unwind"}

\* key k is in env with its value from before the entry, or in neither
Restored(k) ==
    IF k \in DOMAIN last.snap.env
    THEN k \in DOMAIN env /\ env[k] = last.snap.env[k]
    ELSE k \notin DOMAIN env

\* C1: once every scope has been left, normally or by a failure, env and
\* output are what they were before the outermost scope was entered.
C1_AllRestored ==
    (stack = <<>> /\ last.op # "init") =>
        (env = last.snap.env /\ output = last.snap.output)

\* C2: a key that was not in env before a _setenv scope was entered is not
\* in env after the scope's block ended.
C2_NewKeyDeleted ==
    (last.op = "exit" /\ IsEnvScope(last.mgr)) =>
        \A k \in OverrideKeys(last.mgr) \ DOMAIN last.snap.env :
            k \notin DOMAIN env

\* C3: when the block of a _setenv scope raises, every overridden key that
\* was in env before the entry has its value from before the entry once
\* __exit__ has run, the scope's managers were exited once, and the failure
\* still propagates.
C3_FailureRestores ==
    (last.op = "unwind" /\ IsEnvScope(last.mgr)) =>
        /\ \A k \in OverrideKeys(last.mgr) \cap DOMAIN last.snap.env :
              k \in DOMAIN env /\ env[k] = last.snap.env[k]
        /\ last.raised
        /\ Len(last.trace) = Len(last.mgr.managers)

C3_Witness ==
    /\ last.op = "unwind"
    /\ status = "unwind"
    /\ last.snap.call.fn = "settings"
    /\ "user" \in DOMAIN last.snap.env
    /\ last.snap.env["user"] = "v0"
    /\ last.snap.call.kwargs["user"] = "v1"
    /\ env["user"] = "v0"

\* C4: when the block of a show or hide scope raises, every group the scope
\* set has its value from before the entry once __exit__ has run.
C4_OutputRestoredOnFailure ==
    (last.op = "unwind" /\ last.mgr.kind = "output") =>
        \A g \in Range(expand_aliases(last.mgr.groups)) :
            output[g] = last.snap.output[g]

\* the events ev of the managers at positions from, from + 1, ..., to
Up(ev, from, to) == [j \in 1..(to - from + 1) |-> Ev(ev, from + j - 1)]

\* the events ev of the managers at positions from, from - 1, ..., to
Down(ev, from, to) == [j \in 1..(from - to + 1) |-> Ev(ev, from - j + 1)]

\* C5: settings(s1, ..., sn, **kwargs) enters s1..sn in the order given and
\* the keyword overrides, if any, last; the entered scopes are exited in the
\* reverse order of their entry when the block ends, when it raises, and
\* when one of the scopes fails to enter.
C5_EnterInOrderExitReversed ==
    LET c == last.snap.call
        m == last.mgr
        n == Len(m.managers)
        a == Len(c.args)
    IN  c.fn = "settings" =>
        /\ n = a + (IF DOMAIN c.kwargs # {} THEN 1 ELSE 0)
        /\ \A i \in 1..a : m.managers[i] = c.args[i]
        /\ DOMAIN c.kwargs # {} =>
              /\ m.managers[n].kind = "setenv"
              /\ m.managers[n].kwargs = c.kwargs
        /\ (last.op = "enter" /\ ~last.raised) =>
              /\ last.trace = Up("enter", 1, n)
              /\ \A k \in DOMAIN c.kwargs : env[k] = c.kwargs[k]
        /\ (last.op = "enter" /\ last.raised) =>
              \E i \in 1..n :
                  last.trace = Up("enter", 1, i - 1) \o <<Ev("fail", i)>>
                               \o Down("exit", i - 1, 1)
        /\ Left =>
              /\ last.trace = Down("exit", n, 1)
              /\ \A k \in OverrideKeys(m) \cap DOMAIN last.snap.env :
                    env[k] = last.snap.env[k]

C5_Witness ==
    /\ last.op = "unwind"
    /\ last.snap.call.fn = "settings"
    /\ Len(last.snap.call.args) = 2
    /\ DOMAIN last.snap.call.kwargs # {}
    /\ last.trace = <<Ev("exit", 3), Ev("exit", 2), Ev("exit", 1)>>

\* C6: when the second of three scopes of settings(s1, s2, s3) fails to
\* enter, s3 is not entered and everything s1 changed is as it was before
\* the with statement.
C6_FailedEnterLeavesNothing ==
    LET m == last.mgr
    IN  (/\ last.op = "enter"
         /\ m.kind = "nested"
         /\ Len(m.managers) = 3
         /\ Len(last.trace) >= 2
         /\ last.trace[1] = Ev("enter", 1)
         /\ last.trace[2] = Ev("fail", 2)) =>
        /\ Ev("enter", 3) \notin Range(last.trace)
        /\ \A k \in DOMAIN m.managers[1].kwargs : Restored(k)
        /\ \A g \in Range(expand_aliases(m.managers[1].groups)) :
              output[g] = last.snap.output[g]

\* C7: of two nested settings scopes that override the same key, present
\* before the outer one, the inner one leaves the key at the outer scope's
\* value while the outer scope is still open, and every such scope leaves
\* the key at its value from before the scope's own entry; both when the
\* block ends and when it raises.
C7_NestedSameKey ==
    (Left /\ last.snap.call.fn = "settings") =>
        /\ \A k \in DOMAIN last.snap.call.kwargs \cap DOMAIN last.snap.env :
              env[k] = last.snap.env[k]
        /\ (stack # <<>> /\ entry[Len(stack)].call.fn = "settings") =>
              LET outer == entry[Len(stack)]
              IN  \A k \in (DOMAIN last.snap.call.kwargs
                              \cap DOMAIN outer.call.kwargs)
                              \cap DOMAIN outer.env :
                      env[k] = outer.call.kwargs[k]

C7_Witness ==
    /\ last.op = "unwind"
    /\ status = "unwind"
    /\ Len(stack) = 1
    /\ entry[1].call.fn = "settings"
    /\ "user" \in DOMAIN entry[1].env
    /\ entry[1].env["user"] = "v0"
    /\ entry[1].call.kwargs["user"] = "v1"
    /\ last.snap.call.fn = "settings"
    /\ last.snap.call.kwargs["user"] = "v2"
    /\ env["user"] = "v1"

\* the calls of the open with statements are cd(a) outermost and, when a
\* second one is open, cd(b) inside it, entered where env.get('cwd') was
\* empty or missing
CdCall(snap, path) == snap.call.fn = "cd" /\ snap.call.args = <<path>>

\* C8: from an empty or missing cwd, cd('a') and inside it cd('b') give cwd
\* 'a/b'; leaving the inner scope gives 'a'; leaving the outer scope gives
\* the empty cwd back, or no cwd key when there was none.
C8_NestedCd ==
    /\ (/\ Len(stack) = 2
        /\ CdCall(entry[1], <<"a">>) /\ ~HasCwd(entry[1].env)
        /\ CdCall(entry[2], <<"b">>)) =>
           env["cwd"] = <<"a", "/", "b">>
    /\ (/\ Len(stack) = 1
        /\ CdCall(entry[1], <<"a">>) /\ ~HasCwd(entry[1].env)
        /\ Left /\ CdCall(last.snap, <<"b">>)) =>
           env["cwd"] = <<"a">>
    /\ (/\ stack = <<>>
        /\ Left /\ CdCall(last.snap, <<"a">>) /\ ~HasCwd(last.snap.env)) =>
           Restored("cwd")

\* the number of spaces among the first n characters of p
RECURSIVE Spaces(_, _)
Spaces(p, n) ==
    IF n = 0 THEN 0 ELSE Spaces(p, n - 1) + (IF p[n] = " " THEN 1 ELSE 0)

\* q is p with a backslash put before every space, and nothing else changed
IsEscaped(q, p) ==
    /\ Len(q) = Len(p) + Spaces(p, Len(p))
    /\ \A i \in 1..Len(p) :
          LET at == i + Spaces(p, i - 1)
          IN  IF p[i] = " "
              THEN q[at] = "\\" /\ q[at + 1] = " "
              ELSE q[at] = p[i]

\* C9: cd(p) stores the escaped p when p starts with '/' or the current cwd
\* is empty or missing, and otherwise the current cwd, one '/', and the
\* escaped p.
C9_CdValue ==
    (last.op = "enter" /\ last.snap.call.fn = "cd") =>
        LET p == last.snap.call.args[1]
            e == last.snap.env
            replaces == \/ (p # <<>> /\ p[1] = "/")
                        \/ "cwd" \notin DOMAIN e
                        \/ e["cwd"] = <<>>
            n == Len(env["cwd"])
        IN  /\ "cwd" \in DOMAIN env
            /\ replaces => IsEscaped(env["cwd"], p)
            /\ ~replaces =>
                  LET c == e["cwd"]
                  IN  /\ n > Len(c)
                      /\ SubSeq(env["cwd"], 1, Len(c)) = c
                      /\ env["cwd"][Len(c) + 1] = "/"
                      /\ IsEscaped(SubSeq(env["cwd"], Len(c) + 2, n), p)

C9_Witness ==
    /\ last.op = "enter"
    /\ last.snap.call.fn = "cd"
    /\ last.snap.call.args[1] = <<"a", " ">>
    /\ "cwd" \in DOMAIN last.snap.env
    /\ last.snap.env["cwd"] = <<"/", "a">>
    /\ env["cwd"] = <<"/", "a", "/", "a", "\\", " ">>

\* the commands of the open prefix scopes, outermost first
OpenCommands == [i \in 1..Len(stack) |-> entry[i].call.args[1]]

\* C10: inside nested prefix scopes command_prefixes is the list from before
\* the outermost one followed by the commands in the order of entry; leaving
\* a scope removes its command, the last one, and leaving them all gives
\* the first list back.
C10_PrefixOrder ==
    /\ stack # <<>> =>
          env["command_prefixes"] =
              entry[1].env["command_prefixes"] \o OpenCommands
    /\ Left => env["command_prefixes"] = last.snap.env["command_prefixes"]

C10_Witness ==
    /\ Len(stack) = 3
    /\ OpenCommands = <<"x", "y", "x">>
    /\ entry[1].env["command_prefixes"] = <<"w">>
    /\ env["command_prefixes"] = <<"w", "x", "y", "x">>

-----------------------------------------------------------------------------
(* stringify_env_var and EnvManager: accumulated shell variables            *)
(* A string is the sequence of its pieces; a triple is                      *)
(* <<value, behaviour, sep>>.                                               *)

MaxTriples == 2

\* '$%s' % var
VarKey(var) == "$" \o var

\* '"' + value + '"'
Quoted(value) == <<"\"", value, "\"">>

StringifyStepSwapped(result, t) ==
    IF t[2] = "append" THEN Quoted(t[1]) \o <<t[3]>> \o result
    ELSE IF t[2] = "prepend" THEN result \o <<t[3]>> \o Quoted(t[1])
    ELSE Quoted(t[1])

\* the body of the for loop: one triple applied to result
StringifyStep(result, t) ==
    IF t[2] = "append" THEN result \o <<t[3]>> \o Quoted(t[1])
    ELSE IF t[2] = "prepend" THEN Quoted(t[1]) \o <<t[3]>> \o result
    ELSE Quoted(t[1])

\* for value, behaviour, sep in ...: result = ...
RECURSIVE StringifyLoop(_, _)
StringifyLoop(triples, result) ==
    IF triples = <<>> THEN result
    ELSE StringifyLoop(Tail(triples), StringifyStep(result, Head(triples)))

\* env.get(key, default)
Get(e, key, default) == IF key \in DOMAIN e THEN e[key] ELSE default

\* "%s=%s" % (var, result)
stringify_env_var(e, var) ==
    <<var, "=">> \o StringifyLoop(Get(e, VarKey(var), <<>>), <<VarKey(var)>>)

\* _valid
Valid == {"append", "prepend", "replace"}

EnvManagerValIgnoresReset(e, key, value, behaviour, sep, reset) ==
    (IF key \in DOMAIN e THEN e[key] ELSE <<>>) \o <<<<value, behaviour, sep>>>>

\* val = []; if (not reset) and (behaviour != 'replace'): if key in env:
\* val.extend(env[key]); val.append((value, behaviour, sep))
EnvManagerVal(e, key, value, behaviour, sep, reset) ==
    (IF (~reset) /\ behaviour # "replace" /\ key \in DOMAIN e
     THEN e[key] ELSE <<>>) \o <<<<value, behaviour, sep>>>>

\* the outcome of env.VAR(value, behaviour, sep, reset): the rendered
\* string, a ValueError, or a _setenv manager
Outcome(kind, str, mgr) == [kind |-> kind, str |-> str, mgr |-> mgr]

EnvManagerCallNoCheck(e, var, value, behaviour, sep, reset) ==
    IF value = None
    THEN Outcome("str", stringify_env_var(e, var), NoMgr)
    ELSE Outcome("mgr", <<>>,
                 SetenvMgr(Dict1(VarKey(var),
                     EnvManagerVal(e, VarKey(var), value, behaviour, sep,
                                   reset))))

EnvManagerCall(e, var, value, behaviour, sep, reset) ==
    IF value = None
    THEN Outcome("str", stringify_env_var(e, var), NoMgr)
    ELSE IF behaviour \notin Valid
    THEN Outcome("ValueError", <<>>, NoMgr)
    ELSE Outcome("mgr", <<>>,
                 SetenvMgr(Dict1(VarKey(var),
                     EnvManagerVal(e, VarKey(var), value, behaviour, sep,
                                   reset))))

\* history of one call that is not the entry of a scope: the call, env and
\* output just before it, whether it raised, and what it returned
Returned(call, e, o, raised, value) ==
    [op |-> "call", mgr |-> NoMgr, snap |-> Snap(call, e, o),
     raised |-> raised, trace |-> <<>>, value |-> value]

\* s = env.VAR(behaviour=behaviour): the call with no value
EnvVarRead(var, behaviour) ==
    /\ status = "run"
    /\ LET r == EnvManagerCall(env, var, None, behaviour, ":", FALSE)
           c == Call(var, <<None, behaviour, ":", FALSE>>, EmptyDict)
       IN  /\ last' = Returned(c, env, output, r.kind = "ValueError", r.str)
           /\ status' = IF r.kind = "ValueError" THEN "unwind" ELSE "run"
    /\ UNCHANGED <<env, output, stack, entry>>

\* with env.VAR(value, behaviour, sep, reset): ...
WithEnvVar(var, value, behaviour, sep, reset) ==
    LET r == EnvManagerCall(env, var, value, behaviour, sep, reset)
        c == Call(var, <<value, behaviour, sep, reset>>, EmptyDict)
    IN  IF r.kind = "mgr"
        THEN With(r.mgr, c)
        ELSE /\ status = "run"
             /\ last' = Returned(c, env, output, TRUE, r.kind)
             /\ status' = "unwind"
             /\ UNCHANGED <<env, output, stack, entry>>

Behaviours == Valid \cup {"bogus"}

Triples == {<<v, b, s>> : v \in {"a", "b"}, b \in Valid, s \in {":", "/"}}

\* env holds any history of FOO, or none
InitStringify ==
    /\ env \in {Defaults} \cup
               {SetItem(Defaults, VarKey("FOO"), h) :
                    h \in SeqsUpTo(Triples, MaxTriples)}
    /\ output = AllOutput
    /\ InitHistory

NextStringify ==
    \E behaviour \in Behaviours : EnvVarRead("FOO", behaviour)

SpecStringify == InitStringify /\ [][NextStringify]_vars

\* the last triple of h that is neither an append nor a prepend, 0 if none
LastDiscard(h) ==
    LET S == {i \in 1..Len(h) : h[i][2] \notin {"append", "prepend"}}
    IN  IF S = {} THEN 0 ELSE CHOOSE i \in S : \A k \in S : k <= i

\* sep "value" of the appends of h from position i on, in their order
RECURSIVE Appended(_, _)
Appended(h, i) ==
    IF i > Len(h) THEN <<>>
    ELSE (IF h[i][2] = "append" THEN <<h[i][3], "\"", h[i][1], "\"">>
          ELSE <<>>) \o Appended(h, i + 1)

\* "value" sep of the prepends of h from position i on, the latest first
RECURSIVE Prepended(_, _)
Prepended(h, i) ==
    IF i > Len(h) THEN <<>>
    ELSE Prepended(h, i + 1) \o
         (IF h[i][2] = "prepend" THEN <<"\"", h[i][1], "\"", h[i][3]>>
          ELSE <<>>)

\* what the fold over h amounts to: the appends and prepends after the last
\* discarding triple, around that triple's value or around $VAR
Folded(h, var) ==
    LET j == LastDiscard(h)
    IN  Prepended(h, j + 1)
        \o (IF j = 0 THEN <<VarKey(var)>> ELSE <<"\"", h[j][1], "\"">>)
        \o Appended(h, j + 1)

\* the call of the last step was env.VAR() with no value
IsRead == last.op = "call" /\ last.snap.call.args[1] = None

\* C11: env.VAR() with no value returns 'VAR=' followed by the left fold of
\* the stored triples over '$VAR' (an append adds sep and the quoted value
\* on the right, a prepend adds the quoted value and sep on the left, any
\* other behaviour leaves only the quoted value), and changes nothing.
C11_Stringify ==
    IsRead =>
        LET var == last.snap.call.fn
            h == Get(last.snap.env, VarKey(var), <<>>)
        IN  /\ last.value = <<var, "=">> \o Folded(h, var)
            /\ ~last.raised
            /\ env = last.snap.env
            /\ output = last.snap.output
            /\ stack = <<>>

C11_Witness ==
    /\ IsRead
    /\ VarKey("FOO") \in DOMAIN env
    /\ env[VarKey("FOO")] = <<<<"a", "append", "/">>, <<"b", "prepend", ":">>>>
    /\ last.value = <<"FOO", "=", "\"", "b", "\"", ":", "$FOO", "/",
                      "\"", "a", "\"">>

-----------------------------------------------------------------------------
(* Accumulator scopes of one variable, nested, and reads of it              *)

Histories == SeqsUpTo({<<"a", "append", ":">>, <<"b", "prepend", "/">>}, 1)

InitEnvVar ==
    /\ env \in {Defaults} \cup
               {SetItem(Defaults, VarKey("FOO"), h) : h \in Histories}
    /\ output = AllOutput
    /\ InitHistory

NextEnvVar ==
    \/ /\ CanEnter(MaxDepth)
       /\ \E behaviour \in Behaviours, reset \in BOOLEAN :
              WithEnvVar("FOO", "c", behaviour, ";", reset)
    \/ \E behaviour \in Behaviours : EnvVarRead("FOO", behaviour)
    \/ ExitBlock
    \/ Raise
    \/ Unwind
    \/ Catch

SpecEnvVar == InitEnvVar /\ [][NextEnvVar]_vars

\* the last step was a call env.VAR(...) that entered no scope
IsCall == last.op = "call"

\* C12 as stated: every call with a behaviour that is not append, prepend or
\* replace raises, with or without a value, and leaves env as it was.
C12_AnyInvalidBehaviourFails ==
    (IsCall /\ last.snap.call.args[2] \notin Valid) =>
        (last.raised /\ env = last.snap.env)

\* C12: a call with a value and a behaviour that is not append, prepend or
\* replace raises ValueError, leaves env as it was and enters no scope, so
\* every open accumulator scope has a valid behaviour; a call with no value
\* returns the rendered string whatever the behaviour is.
C12_InvalidBehaviourWithValueFails ==
    /\ (IsCall /\ last.snap.call.args[1] # None) =>
          /\ last.snap.call.args[2] \notin Valid
          /\ last.raised
          /\ env = last.snap.env
          /\ output = last.snap.output
    /\ \A i \in 1..Len(entry) : entry[i].call.args[2] \in Valid
    /\ (last.op = "enter" /\ last.snap.call.fn = "FOO") =>
          last.snap.call.args[2] \in Valid
    /\ IsRead =>
          /\ ~last.raised
          /\ last.value = stringify_env_var(last.snap.env, last.snap.call.fn)

C12_Witness ==
    /\ IsCall
    /\ last.snap.call.args = <<"c", "bogus", ";", FALSE>>
    /\ last.raised
    /\ status = "unwind"
    /\ Len(stack) = 1
    /\ env = entry[1].env @@ Dict1(VarKey("FOO"), <<<<"c", "append", ";">>>>)

\* C13: for a variable whose key is in env with history h, inside the scope
\* of env.VAR(value, behaviour, sep, reset) the stored list is the one new
\* triple when reset is true, and h followed by the new triple when reset
\* is false and the behaviour is append or prepend; once the scope has been
\* left the stored list is h again.
C13_History ==
    LET c == last.snap.call
        key == VarKey(c.fn)
        t == <<c.args[1], c.args[2], c.args[3]>>
    IN  (last.op \in {"enter", "exit", "unwind"}
         /\ key \in DOMAIN last.snap.env) =>
            LET h == last.snap.env[key]
            IN  /\ (last.op = "enter" /\ c.args[4]) => env[key] = <<t>>
                /\ (last.op = "enter" /\ ~c.args[4]
                    /\ c.args[2] \in {"append", "prepend"}) =>
                       env[key] = h \o <<t>>
                /\ Left => env[key] = h

C13_Witness ==
    /\ last.op = "exit"
    /\ last.snap.call.args = <<"c", "append", ";", FALSE>>
    /\ VarKey("FOO") \in DOMAIN last.snap.env
    /\ last.snap.env[VarKey("FOO")] = <<<<"b", "prepend", "/">>>>
    /\ last.mgr.kwargs[VarKey("FOO")] =
           <<<<"b", "prepend", "/">>, <<"c", "append", ";">>>>
    /\ env[VarKey("FOO")] = <<<<"b", "prepend", "/">>>>

-----------------------------------------------------------------------------
(* One show or hide scope, for lists with duplicates and aliases            *)

MaxGroups == 2

GroupNames == {"stdout", "output", "running"}

InitOutput ==
    /\ env = Defaults
    /\ output \in [{"running", "stdout", "stderr"} -> BOOLEAN]
    /\ InitHistory

NextOutput ==
    \/ /\ CanEnter(1)
       /\ \E groups \in SeqsUpTo(GroupNames, MaxGroups) : WithShow(groups)
    \/ /\ CanEnter(1)
       /\ \E groups \in SeqsUpTo(GroupNames, MaxGroups) : WithHide(groups)
    \/ ExitBlock
    \/ Raise
    \/ Unwind
    \/ Catch

SpecOutput == InitOutput /\ [][NextOutput]_vars

\* the last step was done to a show scope (which = TRUE) or a hide scope
IsOutputScope(which) ==
    /\ last.mgr.kind = "output"
    /\ last.mgr.which = which
    /\ last.snap.call.fn = (IF which THEN "show" ELSE "hide")

\* the concrete groups that the names stand for
Expansion(names) ==
    {g \in DOMAIN last.snap.output :
        \E i \in DOMAIN names :
            \/ names[i] = g
            \/ /\ names[i] \in DOMAIN Aliases
               /\ g \in Range(Aliases[names[i]])}

\* C14: show(names) sets every group that the names stand for to True, and
\* hide(names) to False, for the block, whatever aliases and repetitions
\* the names hold; when the block ends normally each of them has its value
\* from before the entry again; no other group is changed at any time.
C14_ShowHideFrame ==
    \A which \in BOOLEAN :
        IsOutputScope(which) =>
            LET X == Expansion(last.snap.call.args)
            IN  /\ DOMAIN output = DOMAIN last.snap.output
                /\ \A g \in DOMAIN output \ X : output[g] = last.snap.output[g]
                /\ last.op = "enter" =>
                      /\ ~last.raised
                      /\ \A g \in X : output[g] = which
                /\ last.op = "exit" => output = last.snap.output
                /\ env = last.snap.env

C14_Witness ==
    /\ last.op = "exit"
    /\ IsOutputScope(FALSE)
    /\ last.snap.call.args = <<"stdout", "output">>
    /\ last.snap.output = [g \in {"running", "stdout", "stderr"} |->
                              g # "stderr"]
    /\ last.mgr.groups = <<"stdout", "output">>
    /\ output["stdout"] /\ ~output["stderr"] /\ output["running"]

-----------------------------------------------------------------------------
(* One show or hide scope over names that output does not hold              *)

NamesWithUnknown == {"stdout", "stderr", "typo"}

InitUnknown ==
    /\ env = Defaults
    /\ output \in [Groups -> BOOLEAN]
    /\ InitHistory

NextUnknown ==
    \/ /\ CanEnter(1)
       /\ \E groups \in SeqsUpTo(NamesWithUnknown, MaxGroups) :
              WithShow(groups)
    \/ /\ CanEnter(1)
       /\ \E groups \in SeqsUpTo(NamesWithUnknown, MaxGroups) :
              WithHide(groups)
    \/ ExitBlock
    \/ Raise
    \/ Unwind
    \/ Catch

SpecUnknown == InitUnknown /\ [][NextUnknown]_vars

-----------------------------------------------------------------------------
(* One settings statement with keyword overrides, run twice in a row        *)

\* with settings(key=value, ...): pass -- env and output after the statement
RunSettings(e, o, kwargs) ==
    LET r == MgrEnter(e, o, settings(<<>>, kwargs))
    IN  MgrExit(r.env, r.output, r.frame, FALSE)

\* with settings(key=value, ...): pass, and the same statement once more
SettingsTwice(kwargs) ==
    /\ status = "run"
    /\ stack = <<>>
    /\ LET first == RunSettings(env, output, kwargs)
           second == RunSettings(first.env, first.output, kwargs)
       IN  /\ env' = second.env
           /\ output' = second.output
           /\ last' = Step("twice", settings(<<>>, kwargs),
                           Snap(Call("settings", <<>>, kwargs), env, output),
                           second.raised, <<>>)
    /\ UNCHANGED <<stack, status, entry>>

\* the override sets over the keys user and port
OverrideSets ==
    UNION {[keys -> {"v1", "v2"}] : keys \in (SUBSET {"user", "port"}) \ {{}}}

InitSerial ==
    /\ env \in {Defaults} \cup
               UNION {{Defaults @@ o : o \in [keys -> {"v0"}]} :
                          keys \in (SUBSET {"user", "port"}) \ {{}}}
    /\ output = AllOutput
    /\ InitHistory

NextSerial == \E kwargs \in OverrideSets : SettingsTwice(kwargs)

SpecSerial == InitSerial /\ [][NextSerial]_vars

\* C16: running the same with settings(key=value, ...) twice, one run after the other, leaves
\* env as it was before the first run, also for keys that env did not hold
\* before.
C16_TwiceRestores == last.op = "twice" => env = last.snap.env

-----------------------------------------------------------------------------
(* path: deprecated, calls warn before it builds its scope                  *)

\* the names bound in the module context_managers: its imports and its
\* definitions
ModuleNames ==
    {"os", "sys", "contextmanager", "nested", "env", "output", "win32",
     "termios", "tty", "_set_output", "show", "hide", "_setenv",
     "stringify_env_var", "EnvManager", "settings", "cd", "path", "prefix",
     "char_buffered"}

\* path(path, behavior): warn(...) is looked up and called, then the scope
\* is built; a name that is bound nowhere raises NameError
PathCall(p, behavior) ==
    IF "warn" \in ModuleNames
    THEN Outcome("mgr", <<>>,
                 SetenvMgr(SetItem(Dict1("path", p), "path_behavior",
                                   behavior)))
    ELSE Outcome("NameError", <<>>, NoMgr)

\* with path(p, behavior): ...
WithPath(p, behavior) ==
    LET r == PathCall(p, behavior)
        c == Call("path", <<p, behavior>>, EmptyDict)
    IN  IF r.kind = "mgr"
        THEN With(r.mgr, c)
        ELSE /\ status = "run"
             /\ last' = Returned(c, env, output, TRUE, r.kind)
             /\ status' = "unwind"
             /\ UNCHANGED <<env, output, stack, entry>>

NextPath ==
    \/ /\ Len(stack) < MaxDepth
       /\ \E p \in {"/opt/bin", "bin"}, behavior \in Valid :
              WithPath(p, behavior)
    \/ NextCd

SpecPath == InitCd /\ [][NextPath]_vars

\* C17: path(p, behavior) returns a scope; inside it env.path is p and
\* env.path_behavior is behavior, and both are restored when it is left.
C17_PathScope ==
    last.snap.call.fn = "path" =>
        /\ ~last.raised
        /\ last.op \in {"enter", "exit", "unwind"}
        /\ last.op = "enter" =>
              /\ {"path", "path_behavior"} \subseteq DOMAIN env
              /\ env["path"] = last.snap.call.args[1]
              /\ env["path_behavior"] = last.snap.call.args[2]
        /\ last.op = "exit" =>
              \A k \in {"path", "path_behavior"} : Restored(k)

-----------------------------------------------------------------------------
(* settings() over two accumulating scopes written in one call              *)

\* prefix(x) and cd(a) as argument expressions: the call runs, and reads
\* env, when the argument list of settings is evaluated
BuildMgr(e, c) ==
    IF c.fn = "prefix" THEN prefix(e, c.args[1]) ELSE cd(e, c.args[1])

\* with settings(prefix(x), prefix(y)): ...
WithSettingsPrefix(x, y) ==
    LET cs == <<Call("prefix", <<x>>, EmptyDict),
                Call("prefix", <<y>>, EmptyDict)>>
    IN  IF "command_prefixes" \in DOMAIN env
        THEN With(settings(<<BuildMgr(env, cs[1]), BuildMgr(env, cs[2])>>,
                           EmptyDict),
                  Call("settings", cs, EmptyDict))
        ELSE /\ status = "run"
             /\ status' = "unwind"
             /\ UNCHANGED <<env, output, stack, entry, last>>

\* with settings(cd(a), cd(b)): ...
WithSettingsCd(a, b) ==
    LET cs == <<Call("cd", <<a>>, EmptyDict), Call("cd", <<b>>, EmptyDict)>>
    IN  With(settings(<<BuildMgr(env, cs[1]), BuildMgr(env, cs[2])>>,
                      EmptyDict),
             Call("settings", cs, EmptyDict))

InitAccumulate ==
    /\ env \in {Defaults, Dict1("cwd", <<"c">>),
                SetItem(Dict1("cwd", <<"/", "c">>), "command_prefixes",
                        <<"w">>)}
    /\ output = AllOutput
    /\ InitHistory

NextAccumulate ==
    \/ /\ CanEnter(1)
       /\ \E x \in Commands, y \in Commands : WithSettingsPrefix(x, y)
    \/ /\ CanEnter(1)
       /\ \E a \in CdPaths, b \in CdPaths : WithSettingsCd(a, b)
    \/ ExitBlock
    \/ Raise
    \/ Unwind
    \/ Catch

SpecAccumulate == InitAccumulate /\ [][NextAccumulate]_vars

\* env inside the with statements of the calls cs nested in their order:
\* each scope is built from the env that the scopes before it have set
RECURSIVE NestedEnv(_, _)
NestedEnv(e, cs) ==
    IF cs = <<>> THEN e
    ELSE NestedEnv(SetenvEnter(e, BuildMgr(e, Head(cs)).kwargs).env, Tail(cs))

\* C18: inside with settings(s1, s2), for s1 and s2 both prefix scopes or
\* both cd scopes, env is what it is inside with s1: with s2: -- so
\* command_prefixes ends with the two commands in their order.
C18_ComposeEqualsNest ==
    LET c == last.snap.call
    IN  (last.op = "enter" /\ c.fn = "settings" /\ Len(c.args) = 2) =>
            /\ env = NestedEnv(last.snap.env, c.args)
            /\ c.args[1].fn = "prefix" =>
                  env["command_prefixes"] =
                      last.snap.env["command_prefixes"]
                          \o <<c.args[1].args[1], c.args[2].args[1]>>

-----------------------------------------------------------------------------
(* Blocks that assign to env while settings scopes are open                 *)

\* env[key] = value, a statement of the block
Assign(key, value) ==
    /\ status = "run"
    /\ stack # <<>>
    /\ env' = SetItem(env, key, value)
    /\ last' = Step("assign", NoMgr,
                    Snap(Call("assign", <<key, value>>, EmptyDict),
                         env, output),
                    FALSE, <<>>)
    /\ UNCHANGED <<output, stack, status, entry>>

AssignKeys == {"user", "port", "host"}

InitAssign ==
    /\ env \in {[k \in AssignKeys |-> "v0"], [k \in {"user"} |-> "v0"]}
    /\ output = AllOutput
    /\ InitHistory

NextAssign ==
    \/ /\ CanEnter(MaxDepth)
       /\ \E key \in {"user", "port"} :
              WithSettings(<<>>, Dict1(key, "v1"))
    \/ \E key \in AssignKeys : Assign(key, "w")
    \/ ExitBlock
    \/ Raise
    \/ Unwind
    \/ Catch

SpecAssign == InitAssign /\ [][NextAssign]_vars

\* C19: a step that enters or leaves a settings(key=value) scope changes no
\* key of env but the scope's own: what the block assigned to other keys is
\* still there after the exit, while an overridden key that was in env
\* before the entry gets its value from before the entry, whatever the
\* block assigned to it.
C19_Frame ==
    [][ stack' # stack =>
          LET n == IF Len(stack') > Len(stack) THEN Len(stack') ELSE Len(stack)
              f == IF Len(stack') > Len(stack) THEN stack'[n] ELSE stack[n]
              before == IF Len(stack') > Len(stack) THEN entry'[n] ELSE entry[n]
              keys == OverrideKeys(f.mgr)
          IN  /\ \A k \in (DOMAIN env \cup DOMAIN env') \ keys :
                    k \in DOMAIN env /\ k \in DOMAIN env' /\ env'[k] = env[k]
              /\ Len(stack') < Len(stack) =>
                    \A k \in keys \cap DOMAIN before.env :
                        env'[k] = before.env[k]
      ]_vars

C19_Witness ==
    /\ last.op = "exit"
    /\ stack = <<>>
    /\ DOMAIN last.mgr.managers[1].kwargs = {"user"}
    /\ last.snap.env = [k \in AssignKeys |-> "v0"]
    /\ env = [k \in AssignKeys |-> IF k = "user" THEN "v0" ELSE "w"]

-----------------------------------------------------------------------------
(* fabric.utils: abort, warn, puts and fastprint                            *)

\* the argument of sys.exit in abort
ExitStatus == 1

\* print >> stream, text and stream.write(text): one piece of output
Write(stream, text) == [stream |-> stream, text |-> text]

\* env.color_settings[name](text)
Colored(e, name, text) ==
    IF e["colors"] THEN <<"color:" \o name>> \o text \o <<"color:off">>
    ELSE text

\* what a function of fabric.utils did: what it printed, whether it raised,
\* and the status it exits with (None if it does not exit)
Did(printed, raised, exit) ==
    [printed |-> printed, raised |-> raised, exit |-> exit]

abortExitsWhenShown(o, e, msg) ==
    IF o["aborts"]
    THEN Did(<<Write("stderr",
                     Colored(e, "abort", <<"\nFatal error: ", msg>>)),
               Write("stderr", Colored(e, "abort", <<"\nAborting.">>))>>,
             TRUE, ExitStatus)
    ELSE Did(<<>>, FALSE, None)

abort(o, e, msg) ==
    Did(IF o["aborts"]
        THEN <<Write("stderr",
                     Colored(e, "abort", <<"\nFatal error: ", msg>>)),
               Write("stderr", Colored(e, "abort", <<"\nAborting.">>))>>
        ELSE <<>>,
        TRUE, ExitStatus)

warn(o, e, msg) ==
    Did(IF o["warnings"]
        THEN <<Write("stderr",
                     Colored(e, "warn", <<"\nWarning: ", msg, "\n">>))>>
        ELSE <<>>,
        FALSE, None)

\* a Python value with its type: a str, a bool, or the object Blank
Str(s) == [type |-> "str", v |-> s]

Bool(b) == [type |-> "bool", v |-> IF b THEN "True" ELSE "False"]

\* the truth value of a bool
Truth(x) == x.v = "True"

Blank == [type |-> "object", v |-> "Blank"]

\* the replacement fields that a text can hold, and the key each names
Fields == [f \in {"{user}"} |-> "user"]

\* text.format(key=value, ...) over the keys of env: the pieces that are
\* replacement fields get the value of their key; a field whose key env
\* does not hold raises KeyError
CanFormat(text, e) ==
    \A i \in DOMAIN text : text[i] \in DOMAIN Fields => Fields[text[i]] \in DOMAIN e

Format(text, e) ==
    [i \in DOMAIN text |->
        IF text[i] \in DOMAIN Fields THEN e[Fields[text[i]]] ELSE text[i]]

puts(o, e, text, show_prefix, end, flush, show_host, format) ==
    IF ~o["user"] THEN Did(<<>>, FALSE, None)
    ELSE
    LET pfx == IF show_prefix.type = "str"
                  THEN <<"[", show_prefix.v, "] ">> ELSE <<>>
        host == IF show_prefix.type # "str" /\ Truth(show_prefix)
                THEN TRUE ELSE show_host
        host_prefix == IF host /\ e["host_string"] # ""
                       THEN <<"[", e["host_string"], "] ">> ELSE <<>>
        cprefix == IF pfx # <<>> THEN Colored(e, "prefix", pfx)
                   ELSE pfx
        chost == IF host_prefix # <<>>
                 THEN Colored(e, "host_prefix", host_prefix)
                 ELSE host_prefix
        whole == chost \o cprefix \o <<text>> \o <<end>>
        fmt == IF format.type = "object" THEN e["format"] ELSE Truth(format)
    IN  IF fmt /\ ~CanFormat(whole, e) THEN Did(<<>>, TRUE, None)
        ELSE Did(<<Write("stdout", IF fmt THEN Format(whole, e) ELSE whole)>>
                 \o (IF flush THEN <<Write("stdout", <<"flush">>)>> ELSE <<>>),
                 FALSE, None)

fastprint(o, e, text, show_prefix, end, flush, show_host, format) ==
    puts(o, e, text, show_prefix, end, flush, show_host, format)

\* history of one call of a function of fabric.utils
Util(op, call, e, o, did) ==
    [op |-> op, mgr |-> NoMgr, snap |-> Snap(call, e, o),
     raised |-> did.raised, trace |-> <<>>, printed |-> did.printed,
     exit |-> did.exit]

\* one statement that calls fn of fabric.utils, with what the call did
Statement(fn, args, did) ==
    /\ status = "run"
    /\ last' = Util(fn, Call(fn, args, EmptyDict), env, output, did)
    /\ status' = IF did.raised THEN "unwind" ELSE "run"
    /\ UNCHANGED <<env, output, stack, entry>>

Abort(msg) == Statement("abort", <<msg>>, abort(output, env, msg))

Warn(msg) == Statement("warn", <<msg>>, warn(output, env, msg))

Puts(text, show_prefix, show_host, format) ==
    Statement("puts", <<text, show_prefix, show_host, format>>,
              puts(output, env, text, show_prefix, "\n", FALSE, show_host,
                   format))

\* fastprint(text): the defaults of its other arguments
Fastprint(text) ==
    Statement("fastprint", <<text>>,
              fastprint(output, env, text, Bool(FALSE), "", TRUE, FALSE,
                        Blank))

UtilGroups == {"aborts", "warnings", "user"}

InitUtils ==
    /\ env \in {SetItem(Defaults @@ o, "host_string", h) :
                   o \in [{"colors", "format"} -> BOOLEAN],
                   h \in {"", "host1"}}
    /\ output = [g \in UtilGroups |-> TRUE]
    /\ InitHistory

NextUtils ==
    \/ /\ CanEnter(1)
       /\ \E groups \in SeqsUpTo(UtilGroups, MaxGroups) : WithHide(groups)
    \/ /\ CanEnter(1)
       /\ \E groups \in SeqsUpTo(UtilGroups, MaxGroups) : WithShow(groups)
    \/ Abort("msg")
    \/ Warn("msg")
    \/ \E text \in {"text", "{user}"},
          show_prefix \in {Bool(TRUE), Bool(FALSE), Str("tag")},
          show_host \in BOOLEAN,
          format \in {Blank, Bool(TRUE), Bool(FALSE)} :
              Puts(text, show_prefix, show_host, format)
    \/ \E text \in {"text", "{user}"} : Fastprint(text)
    \/ ExitBlock
    \/ Unwind
    \/ Catch

SpecUtils == InitUtils /\ [][NextUtils]_vars

\* C20: the output flags gate printing and nothing else.  abort prints, to
\* stderr, exactly when output.aborts is true, and raises SystemExit with
\* status 1 either way -- so inside hide('aborts') it prints nothing and
\* still raises; warn prints exactly when output.warnings is true and never
\* raises; puts and fastprint print only when output.user is true.  None of
\* them changes env or output.
C20_FlagsGatePrinting ==
    LET o == last.snap.output
    IN  /\ last.op = "abort" =>
              /\ (last.printed # <<>>) <=> o["aborts"]
              /\ \A i \in DOMAIN last.printed :
                    last.printed[i].stream = "stderr"
              /\ last.raised
              /\ last.exit = ExitStatus
              /\ (stack # <<>> /\ ~stack[1].mgr.which
                  /\ "aborts" \in Range(stack[1].mgr.groups)) =>
                     last.printed = <<>>
        /\ last.op = "warn" =>
              /\ (last.printed # <<>>) <=> o["warnings"]
              /\ ~last.raised
              /\ last.exit = None
        /\ last.op \in {"puts", "fastprint"} =>
              /\ (last.printed # <<>>) => o["user"]
              /\ (o["user"] /\ ~last.raised) => last.printed # <<>>
              /\ last.exit = None
        /\ last.op \in {"abort", "warn", "puts", "fastprint"} =>
              (env = last.snap.env /\ output = o)

C20_Witness ==
    /\ last.op = "abort"
    /\ Len(stack) = 1
    /\ stack[1].mgr = hide(<<"aborts">>)
    /\ ~output["aborts"]
    /\ last.printed = <<>>
    /\ last.raised
    /\ last.exit = ExitStatus
    /\ status = "unwind"

====
